---- MODULE Spec2Model ----
(***************************************************************************)
(* useMutationObserver (src/src/index.tsx): a React hook that keeps a      *)
(* MutationObserver in a state cell, registers it on a target element in   *)
(* an effect and stores the last value its callback derived.               *)
(*                                                                         *)
(* One hook instance is modelled.  A render evaluates the hook body and    *)
(* captures its closures; the commit then runs, in React's order, the      *)
(* cleanups of the effects whose dependencies changed, then the effect     *)
(* that creates the observer, then the effect that registers it.  DOM      *)
(* mutations queue records on the registered observers and a later         *)
(* microtask delivers each queue to the observer's callback.               *)
(***************************************************************************)
EXTENDS Integers, Sequences, FiniteSets, TLC

\* ---------------------------------------------------------------- bounds
MaxRenders == 3      \* renders of the hook (each creates one MutationObserver)
MaxBatch == 2        \* records waiting in one observer's record queue

\* ---------------------------------------------------------------- values
Null == "null"              \* an absent target
Undefined == "undefined"
NullObserver == 0           \* useState<MutationObserver | null>(null)

\* target: Element | null; "notNode" is a truthy value that is no DOM node
Targets == {Null, "t1", "t2", "notNode"}
Nodes == {"t1", "t2"}

\* callback?: MutationValueCallback<T> | MutationObserverCallback
\*   "none"  : the argument is omitted, or is a value that is no function
\*             (the hook tests only `callback && typeof callback === 'function'`)
\*   "fLast" : returns what it reads from the last record of the batch, which
\*             is undefined when the attribute was removed
\*   "fVoid" : a MutationObserverCallback, returns undefined
Callbacks == {"none", "fLast", "fVoid"}
Functions == {"fLast", "fVoid"}

\* options objects by identity; defaultMutationObserverOptions is the one
\* shared object the parameter defaults to
defaultMutationObserverOptions == "defaultOptions"
OptionObjects == {defaultMutationObserverOptions, "childListOptions", "emptyOptions"}

\* the options argument: an object of the caller's, or omitted.  The default
\* object is not exported, so a caller cannot pass it.
Omitted == "omitted"
OptionArguments == {Omitted, "childListOptions", "emptyOptions"}

DefaultParameterEmptyObject(argument) ==
    IF argument = Omitted THEN "emptyOptions" ELSE argument

\* options = defaultMutationObserverOptions
DefaultParameter(argument) ==
    IF argument = Omitted THEN defaultMutationObserverOptions ELSE argument

MutationObserverOptions(o) ==
    CASE o = defaultMutationObserverOptions ->
            [attributes |-> TRUE, childList |-> FALSE, characterData |-> FALSE]
      [] o = "childListOptions" ->
            [attributes |-> FALSE, childList |-> TRUE, characterData |-> FALSE]
      [] OTHER ->
            [attributes |-> FALSE, childList |-> FALSE, characterData |-> FALSE]

MutationTypes == {"attributes", "childList"}
\* what a transform reads from a record: the attribute's new value, or
\* undefined after a removal
RecordValues == {"a", Undefined}

VARIABLES
    pc,             \* position in the render / commit / effect cycle
    r,              \* what the last render captured: props, state, its number
    observerState,  \* the useState cell written by setObserver
    valueState,     \* the useState cell written by setValue
    deps1,          \* dependencies of the last run of the creating effect
    deps2,          \* dependencies of the last run of the registering effect
    cleanup2,       \* the observer the pending cleanup closure captured, or none
    observers,      \* every MutationObserver created, in order: observer h is
                    \* observers[h], created by the effects of render h
    ev,             \* the last thing a notification or a registration did
    cfgChange,      \* the render that last changed only the options, or 0
    steady          \* every render so far got the arguments of the first one
                    \* and no node has been mutated

vars == <<pc, r, observerState, valueState, deps1, deps2, cleanup2,
          observers, ev, cfgChange, steady>>

NoEvent ==
    [kind |-> "init", handle |-> NullObserver, arg |-> NullObserver,
     cb |-> "none",
     invoked |-> FALSE, warned |-> FALSE, result |-> Undefined]

Event(kind, handle) == [NoEvent EXCEPT !.kind = kind, !.handle = handle]

\* ------------------------------------------------------ MutationObserver
\* new MutationObserver(handleChanges): handleChanges closes over the
\* `observer` and `callback` of the render that defined it
NewObserver(capObserver, capCallback) ==
    [capObserver |-> capObserver, capCallback |-> capCallback,
     nodes |-> {}, queue |-> <<>>, disconnects |-> 0]

\* observer.observe(target, options) throws a TypeError for a target that is
\* no Node and for options that select no mutation type
ObserveThrows(target, options) ==
    \/ target \notin Nodes
    \/ LET o == MutationObserverOptions(options)
       IN  ~(o.attributes \/ o.childList \/ o.characterData)

ObserveWithDefaultOptions(obs, h, target, options) ==
    [obs EXCEPT ![h].nodes =
        {n \in @ : n[1] # target}
            \cup {<<target, defaultMutationObserverOptions>>}]

\* observer.observe(target, options): a second call for the same node
\* replaces its options
Observe(obs, h, target, options) ==
    [obs EXCEPT ![h].nodes =
        {n \in @ : n[1] # target} \cup {<<target, options>>}]

\* observer.disconnect(): drops every registration and empties the queue
Disconnect(obs, h) ==
    [obs EXCEPT ![h].nodes = {}, ![h].queue = <<>>,
                ![h].disconnects = @ + 1]

Observing(h) == observers[h].nodes # {}
ObservingHandles == {h \in DOMAIN observers : Observing(h)}

\* the observers a mutation of type ty on node t is reported to
Interested(t, ty) ==
    {h \in DOMAIN observers :
        \E n \in observers[h].nodes :
            n[1] = t /\ MutationObserverOptions(n[2])[ty]}

\* ------------------------------------------------------------- the hook
\* the caller's transform applied to a batch
Transform(callback, batch) ==
    IF callback = "fLast" THEN batch[Len(batch)].value ELSE Undefined

handleChangesAlwaysSets(observer, callback, batch) ==
    IF observer # NullObserver
    THEN IF callback \in Functions
         THEN [invoked |-> TRUE, arg |-> observer, warned |-> FALSE,
               result |-> Transform(callback, batch), set |-> TRUE]
         ELSE [invoked |-> FALSE, arg |-> NullObserver, warned |-> TRUE,
               result |-> Undefined, set |-> FALSE]
    ELSE [invoked |-> FALSE, arg |-> NullObserver, warned |-> FALSE,
          result |-> Undefined, set |-> FALSE]

handleChangesWithoutObserverCheck(observer, callback, batch) ==
    IF callback \in Functions
    THEN LET result == Transform(callback, batch)
         IN  [invoked |-> TRUE, arg |-> observer, warned |-> FALSE,
              result |-> result, set |-> result # Undefined]
    ELSE [invoked |-> FALSE, arg |-> NullObserver, warned |-> TRUE,
          result |-> Undefined, set |-> FALSE]

\* handleChanges: what one call does, given the observer and callback its
\* closure captured
handleChanges(observer, callback, batch) ==
    IF observer # NullObserver
    THEN IF callback \in Functions
         THEN LET result == Transform(callback, batch)
              IN  [invoked |-> TRUE, arg |-> observer, warned |-> FALSE,
                   result |-> result, set |-> result # Undefined]
         ELSE [invoked |-> FALSE, arg |-> NullObserver, warned |-> TRUE,
               result |-> Undefined, set |-> FALSE]
    ELSE [invoked |-> FALSE, arg |-> NullObserver, warned |-> FALSE,
          result |-> Undefined, set |-> FALSE]

Init ==
    /\ pc = "init"
    /\ r = [id |-> 0, target |-> Null, callback |-> "none",
            optionsArgument |-> Omitted,
            options |-> defaultMutationObserverOptions,
            observer |-> NullObserver, value |-> Undefined]
    /\ observerState = NullObserver
    /\ valueState = Undefined
    /\ deps1 = <<>>
    /\ deps2 = <<>>
    /\ cleanup2 = NullObserver
    /\ observers = <<>>
    /\ ev = NoEvent
    /\ cfgChange = 0
    /\ steady = TRUE

\* One evaluation of the hook body with the caller's arguments: reads the two
\* state cells and defines a new handleChanges.
Render(target, callback, optionsArgument) ==
    /\ pc \in {"init", "idle"}
    /\ r.id < MaxRenders
    /\ r' = [id |-> r.id + 1, target |-> target, callback |-> callback,
             optionsArgument |-> optionsArgument,
             options |-> DefaultParameter(optionsArgument),
             observer |-> observerState, value |-> valueState]
    /\ pc' = "committed"
    /\ cfgChange' =
         IF pc = "idle" /\ target = r.target /\ callback = r.callback
         THEN IF r'.options # r.options THEN r.id + 1 ELSE cfgChange
         ELSE 0
    /\ steady' = (steady /\ (pc = "init" \/ (/\ target = r.target
                                              /\ callback = r.callback
                                              /\ optionsArgument =
                                                    r.optionsArgument)))
    /\ UNCHANGED <<observerState, valueState, deps1, deps2, cleanup2,
                   observers, ev>>

\* The cleanup the registering effect returned: `if (observer)
\* observer.disconnect()`, on the observer that run of the effect captured.
ObserveCleanupKeepsObserving(obs, captured) == obs

ObserveCleanup(obs, captured) ==
    IF captured # NullObserver THEN Disconnect(obs, captured) ELSE obs

\* The dependency lists of the two effects as this render passes them.  The
\* first holds handleChanges, a function the render has just defined, which
\* is identified by the render's number.
CreateDeps == <<r.id, r.options>>
ObserveDeps == <<r.observer, r.target, r.options>>

\* Commit, first half: the cleanups of the effects whose dependencies changed
\* run before any effect of this commit is set up.  Only the registering
\* effect ever returns a cleanup.
CommitCleanups ==
    /\ pc = "committed"
    /\ pc' = "effect1"
    /\ IF deps2 # ObserveDeps /\ cleanup2 # NullObserver
       THEN /\ observers' = ObserveCleanup(observers, cleanup2)
            /\ cleanup2' = NullObserver
       ELSE UNCHANGED <<observers, cleanup2>>
    /\ UNCHANGED <<r, observerState, valueState, deps1, deps2, ev, cfgChange, steady>>

CreateObserverEffectWithoutSetObserver ==
    /\ pc = "effect1"
    /\ pc' = "effect2"
    /\ IF deps1 # CreateDeps
       THEN /\ observers' = Append(observers, NewObserver(r.observer, r.callback))
            /\ deps1' = CreateDeps
       ELSE UNCHANGED <<observers, deps1>>
    /\ UNCHANGED <<r, observerState, valueState, deps2, cleanup2, ev, cfgChange, steady>>

\* useEffect(() => { const obs = new MutationObserver(handleChanges);
\*                   setObserver(obs) }, [handleChanges, options])
CreateObserverEffect ==
    /\ pc = "effect1"
    /\ pc' = "effect2"
    /\ IF deps1 # CreateDeps
       THEN /\ observers' = Append(observers, NewObserver(r.observer, r.callback))
            /\ observerState' = Len(observers) + 1
            /\ deps1' = CreateDeps
       ELSE UNCHANGED <<observers, observerState, deps1>>
    /\ UNCHANGED <<r, valueState, deps2, cleanup2, ev, cfgChange, steady>>

\* try { observer.observe(target, options) } catch (error) {
\* console.error(error) }: the observers afterwards, whether the error was
\* logged, and whether it left the effect.
TryObserveNoCatch(obs, h, target, options) ==
    IF ObserveThrows(target, options)
    THEN [observers |-> obs, logged |-> FALSE, thrown |-> TRUE]
    ELSE [observers |-> Observe(obs, h, target, options), logged |-> FALSE,
          thrown |-> FALSE]

TryObserve(obs, h, target, options) ==
    IF ObserveThrows(target, options)
    THEN [observers |-> obs, logged |-> TRUE, thrown |-> FALSE]
    ELSE [observers |-> Observe(obs, h, target, options), logged |-> FALSE,
          thrown |-> FALSE]

\* the observer the cleanup returned by the registering effect will
\* disconnect: the `observer` of the render the effect belongs to
CleanupCapturesLatest(rendered, latest) == latest

CleanupCaptures(rendered, latest) == rendered

\* useEffect(() => { if (!observer || !target) return; try { observe }
\*                   catch { log }; return cleanup }, [observer, target, options])
\* An error that left the effect would make React unmount the tree.
ObserveEffect ==
    /\ pc = "effect2"
    /\ IF deps2 # ObserveDeps
       THEN /\ deps2' = ObserveDeps
            /\ IF r.observer = NullObserver \/ r.target = Null
               THEN /\ cleanup2' = NullObserver
                    /\ ev' = Event("noObserve", r.observer)
                    /\ pc' = "idle"
                    /\ UNCHANGED observers
               ELSE LET t == TryObserve(observers, r.observer, r.target,
                                        r.options)
                    IN  /\ observers' = t.observers
                        /\ ev' = Event(IF t.logged \/ t.thrown
                                       THEN "observeError" ELSE "observe",
                                       r.observer)
                        /\ cleanup2' = IF t.thrown THEN NullObserver
                                       ELSE CleanupCaptures(r.observer,
                                                            observerState)
                        /\ pc' = IF t.thrown THEN "discarded" ELSE "idle"
       ELSE /\ UNCHANGED <<deps2, cleanup2, observers>>
            /\ ev' = Event("noObserve", r.observer)
            /\ pc' = "idle"
    /\ UNCHANGED <<r, observerState, valueState, deps1, cfgChange, steady>>

\* The binding is discarded: React runs the pending cleanups of its effects.
UnmountWithoutCleanup ==
    /\ pc = "idle"
    /\ pc' = "discarded"
    /\ UNCHANGED <<r, observerState, valueState, deps1, deps2, cleanup2,
                   observers, ev, cfgChange, steady>>

Unmount ==
    /\ pc = "idle"
    /\ pc' = "discarded"
    /\ observers' = ObserveCleanup(observers, cleanup2)
    /\ cleanup2' = NullObserver
    /\ UNCHANGED <<r, observerState, valueState, deps1, deps2, ev, cfgChange, steady>>

\* Between tasks of the event loop: not while a commit's effects are running
Quiet == pc \in {"idle", "committed", "discarded"}

\* A DOM mutation of type ty on node t: a record is queued on every observer
\* registered on t for that type.
Mutate(t, ty, v) ==
    /\ Quiet
    /\ \A h \in Interested(t, ty) : Len(observers[h].queue) < MaxBatch
    /\ observers' =
         [h \in DOMAIN observers |->
            IF h \in Interested(t, ty)
            THEN [observers[h] EXCEPT !.queue =
                    Append(@, [type |-> ty, target |-> t, value |-> v])]
            ELSE observers[h]]
    /\ steady' = FALSE
    /\ UNCHANGED <<pc, r, observerState, valueState, deps1, deps2, cleanup2,
                   ev, cfgChange>>

\* The microtask that notifies observer h: its callback, the handleChanges it
\* was constructed with, receives the whole queue as one batch.  setValue on
\* a discarded binding does nothing.
Deliver(h) ==
    /\ Quiet
    /\ observers[h].queue # <<>>
    /\ LET o == observers[h]
           c == handleChanges(o.capObserver, o.capCallback, o.queue)
       IN  /\ observers' = [observers EXCEPT ![h].queue = <<>>]
           /\ valueState' = IF c.set /\ pc # "discarded" THEN c.result
                            ELSE valueState
           /\ ev' = [kind |-> "deliver", handle |-> h, arg |-> c.arg,
                     cb |-> o.capCallback, invoked |-> c.invoked,
                     warned |-> c.warned, result |-> c.result]
    /\ UNCHANGED <<pc, r, observerState, deps1, deps2, cleanup2, cfgChange, steady>>

Next ==
    \/ \E t \in Targets, cb \in Callbacks, o \in OptionArguments : Render(t, cb, o)
    \/ CommitCleanups
    \/ CreateObserverEffect
    \/ ObserveEffect
    \/ Unmount
    \/ \E t \in Nodes, ty \in MutationTypes, v \in RecordValues :
          Mutate(t, ty, v)
    \/ \E h \in DOMAIN observers : Deliver(h)

Spec == Init /\ [][Next]_vars

\* ---------------------------------------------------------------- claims

\* C1: in every reachable state at most one subscription handle is
\* registered on a target, whatever the interleaving of renders, effect
\* cleanups and setups, prop changes, notifications and discard.
C1_AtMostOneObserving == Cardinality(ObservingHandles) <= 1

\* a handle is observing after an earlier handle was registered and released
C1_Witness ==
    \E h, g \in DOMAIN observers :
        /\ g < h
        /\ Observing(h)
        /\ observers[g].disconnects = 1
        /\ r.target \in Nodes

\* C2: a re-render in which the caller passes the same transform and the same
\* options object as in the previous render creates no new handle: the
\* handle in the state cell keeps its identity.
C2_SamePropsKeepHandle ==
    [][(/\ pc = "effect1"
        /\ r.id > 1
        /\ deps1[2] = r.options
        /\ observers[r.id - 1].capCallback = r.callback)
       => (observerState' = observerState /\ Len(observers') = Len(observers))]_vars

\* C3: whenever the notification callback of handle H invokes the transform,
\* the handle it passes as the second argument is H itself.
C3_TransformGetsOwnHandle ==
    (ev.kind = "deliver" /\ ev.invoked) => ev.arg = ev.handle

\* C4: with a valid target, the default options and a callable transform,
\* every batch delivered by an observing handle invokes the transform exactly
\* once, and a defined result becomes the stored value.
C4_EveryBatchInvokes ==
    (/\ ev.kind = "deliver"
     /\ ev.cb \in Functions
     /\ r.callback \in Functions
     /\ r.target \in Nodes
     /\ r.options = defaultMutationObserverOptions
     /\ pc # "discarded")
    => /\ ev.invoked
       /\ ev.result # Undefined => valueState = ev.result

\* C5: the stored value changes only in a notification whose transform
\* invocation returned a defined result, and then to that result; an
\* undefined result and every other step leave it as it was; the value a
\* render returns is the stored one.
C5_ValueOnlyFromDefinedResult ==
    [][/\ valueState' # valueState =>
            /\ \E h \in DOMAIN observers :
                  /\ observers[h].queue # <<>>
                  /\ observers'[h].queue = <<>>
                  /\ ev'.handle = h
            /\ ev'.kind = "deliver"
            /\ ev'.invoked
            /\ ev'.result # Undefined
            /\ valueState' = ev'.result
       /\ r'.value # r.value => (r'.id = r.id + 1 /\ r'.value = valueState)
      ]_vars

\* a defined value survives a transform invocation that returned undefined
C5_Witness ==
    /\ ev.kind = "deliver"
    /\ ev.invoked
    /\ ev.result = Undefined
    /\ valueState = "a"

\* C6: after a render that changed only the identity of the options, with a
\* node as target and the props then held fixed, exactly one handle has been
\* created since the change, the handle that was observing before it has been
\* disconnected exactly once, and at most one handle is observing.
C6_OneDisconnectOneCreate ==
    (cfgChange # 0 /\ pc = "idle" /\ r.target \in Nodes) =>
        /\ Len(observers) - cfgChange + 1 = 1
        /\ cfgChange > 2 => observers[cfgChange - 2].disconnects = 1
        /\ Cardinality(ObservingHandles) <= 1

\* C7: discarding the binding disconnects the observing handle exactly once,
\* and once discarded nothing is delivered, no handle is disconnected again
\* and the stored value never changes, whatever is mutated.
C7_DiscardDisconnectsOnce ==
    [][/\ (pc = "idle" /\ pc' = "discarded") =>
            \A h \in ObservingHandles :
                /\ observers'[h].disconnects = 1
                /\ observers'[h].nodes = {}
                /\ observers'[h].queue = <<>>
       /\ pc = "discarded" =>
            /\ pc' = "discarded"
            /\ valueState' = valueState
            /\ observers' = observers
            /\ ev' = ev
      ]_vars

\* the binding was discarded while its handle was observing a node and after
\* the transform had produced a value
C7_Witness ==
    /\ pc = "discarded"
    /\ r.observer # NullObserver
    /\ r.target \in Nodes
    /\ ~ObserveThrows(r.target, r.options)
    /\ observers[r.observer].disconnects = 1
    /\ valueState = "a"

\* C8: a handle is registered only when no handle is registered, the
\* previous one having been disconnected first, and after the discard no
\* handle that was ever created remains registered.
C8_NoOrphan ==
    [][/\ \A h \in DOMAIN observers :
            (observers'[h].nodes # observers[h].nodes
             /\ observers'[h].nodes # {}) => ObservingHandles = {}
       /\ pc' = "discarded" =>
            \A h \in DOMAIN observers' : observers'[h].nodes = {}
      ]_vars

\* discarded after a change of options, with two handles registered in turn
\* and each released once
C8_Witness ==
    /\ pc = "discarded"
    /\ cfgChange # 0
    /\ Len(observers) >= 3
    /\ observers[1].disconnects = 1
    /\ observers[2].disconnects = 1
    /\ ~ObserveThrows(r.target, r.options)

\* C9: while no callable transform has ever been supplied, every delivered
\* batch emits a warning, invokes nothing, and the value stays undefined.
C9_NoTransformWarnsEachBatch ==
    ((\A h \in DOMAIN observers : observers[h].capCallback \notin Functions)
     /\ r.callback \notin Functions)
    => /\ valueState = Undefined
       /\ ev.kind = "deliver" => (ev.warned /\ ~ev.invoked)

\* C10: when the registering effect runs with a handle and a target, a
\* registration that throws is logged and goes no further: the effect ends
\* normally, the value, the handle and the render are as before and no handle
\* is observing; a registration that does not throw leaves the rendered
\* handle observing the target with the options.
C10_RegistrationFailureCaught ==
    [][(pc = "effect2" /\ r.observer # NullObserver /\ r.target # Null) =>
          IF ObserveThrows(r.target, r.options)
          THEN /\ ev'.kind = "observeError"
               /\ ev'.handle = r.observer
               /\ pc' = "idle"
               /\ valueState' = valueState
               /\ observerState' = observerState
               /\ r' = r
               /\ ObservingHandles' = {}
          ELSE /\ ev'.kind = "observe"
               /\ pc' = "idle"
               /\ observers'[r.observer].nodes = {<<r.target, r.options>>}
      ]_vars

\* a registration has failed on the third render, after earlier commits, and
\* the binding is idle with nothing observing
C10_Witness ==
    /\ ev.kind = "observeError"
    /\ pc = "idle"
    /\ r.id = 3
    /\ ev.handle = r.observer
    /\ ObservingHandles = {}

\* C11 as claimed: once a commit's effects have run, a rendered handle and a
\* target that are both present mean that handle is registered on exactly
\* that target with the rendered options, and otherwise nothing is registered.
C11_RegisteredWheneverPresent ==
    pc = "idle" =>
        IF r.observer # NullObserver /\ r.target # Null
        THEN /\ observers[r.observer].nodes = {<<r.target, r.options>>}
             /\ ObservingHandles = {r.observer}
        ELSE ObservingHandles = {}

\* C11 as amended: the same, where the registration does not throw (the
\* target is a node and the options select a mutation type); a handle or a
\* target that is absent, or a registration that throws, leaves nothing
\* registered.
C11_RegisteredOnCurrentTarget ==
    pc = "idle" =>
        IF /\ r.observer # NullObserver
           /\ r.target # Null
           /\ ~ObserveThrows(r.target, r.options)
        THEN /\ observers[r.observer].nodes = {<<r.target, r.options>>}
             /\ ObservingHandles = {r.observer}
        ELSE ObservingHandles = {}

\* the third render moved to node t2 with the child-list options, after an
\* earlier handle had been registered and released
C11_Witness ==
    /\ pc = "idle"
    /\ r.id = 3
    /\ r.target = "t2"
    /\ r.options = "childListOptions"
    /\ observers[r.observer].nodes = {<<"t2", "childListOptions">>}
    /\ observers[1].disconnects = 1

C13_DefaultOptionsShared ==
    [][/\ (/\ pc = "idle"
           /\ r'.id = r.id + 1
           /\ r.optionsArgument = Omitted
           /\ r'.optionsArgument = Omitted)
          => /\ r'.options = r.options
             /\ deps1[2] = r'.options
             /\ cfgChange' # r'.id
       /\ (/\ pc = "effect2"
           /\ r.optionsArgument = Omitted
           /\ r.observer # NullObserver
           /\ r.target \in Nodes)
          => \E o \in OptionObjects :
                /\ observers'[r.observer].nodes = {<<r.target, o>>}
                /\ MutationObserverOptions(o) =
                     [attributes |-> TRUE, childList |-> FALSE,
                      characterData |-> FALSE]
      ]_vars

\* three renders omitted the options: handle 2 observes the node with the
\* default object and no change of options was recorded
C13_Witness ==
    /\ pc = "idle"
    /\ r.id = 3
    /\ r.optionsArgument = Omitted
    /\ r.target \in Nodes
    /\ observers[2].nodes = {<<r.target, defaultMutationObserverOptions>>}
    /\ deps1[2] = defaultMutationObserverOptions
    /\ cfgChange = 0
    /\ observers[1].disconnects = 1

\* C14: the binding can be discarded whenever it is idle, whether no handle
\* was rendered yet, a handle exists but the target is absent or the
\* registration failed, or a handle is observing; the discard leaves no
\* handle registered, and once discarded no step creates or registers a
\* handle or changes the value, the handle or the render.
C14_DiscardedIsTerminal ==
    [][/\ pc = "idle" => ENABLED Unmount
       /\ pc' = "discarded" => ObservingHandles' = {}
       /\ pc = "discarded" =>
            /\ pc' = "discarded"
            /\ Len(observers') = Len(observers)
            /\ \A h \in DOMAIN observers :
                  observers'[h].nodes = observers[h].nodes
            /\ valueState' = valueState
            /\ observerState' = observerState
            /\ r' = r
      ]_vars

\* discarded after the first commit: handle 1 exists but was never rendered,
\* registered or disconnected
C14_Witness ==
    /\ pc = "discarded"
    /\ r.id = 1
    /\ r.target \in Nodes
    /\ observerState = 1
    /\ observers[1].disconnects = 0
    /\ observers[1].nodes = {}

\* C15: once the effects of a render have run, a batch that the rendered,
\* observing handle passes to a transform is passed to the transform that
\* render was given, never to the one it superseded.
C15_NewTransformProcessesBatches ==
    (/\ pc = "idle"
     /\ ev.kind = "deliver"
     /\ ev.handle = r.observer
     /\ ev.invoked
     /\ r.callback \in Functions)
    => ev.cb = r.callback

\* C16: with the arguments held fixed since the mount and no mutation, the
\* render/effect cycle has come to rest by the time the last render the
\* bound allows has committed: no state update is pending, so nothing asks
\* for a further render, handle creation, registration or disconnect.
C16_CycleComesToRest ==
    (steady /\ pc = "idle" /\ r.id = MaxRenders)
    => (observerState = r.observer /\ valueState = r.value)

====
